---- MODULE Spec2Model ----
(***************************************************************************)
(* Model of Caliper's JSON split formatter                                 *)
(* (src/src/reader/JsonSplitFormatter.cpp): the path interner              *)
(* (class Hierarchy), the selection policy (configure), the column model   *)
(* (init_columns), the record buffer (process_record) and the flush        *)
(* driver (flush, write_metadata, write_globals).                          *)
(***************************************************************************)
EXTENDS Integers, Sequences, FiniteSets, TLC

VARIABLES
    m_nodes,        \* Hierarchy::m_nodes: the owned node list, creation order
    calls,          \* history of get_id calls: <<[vec, column, id, cell], ...>>
                    \* (cell: what write_hierarchy_entry writes for the id)
    nodes_json,     \* the last dictionary written by Hierarchy::write_nodes
                    \* (empty before the first write)
    m_nodes_lock,   \* the thread holding Hierarchy::m_nodes_lock, or NoThread
    frame,          \* each thread's locals and position inside get_id or
                    \* write_nodes when these run step by step
    spec_in,        \* the QuerySpec handed to the constructor
    configured,     \* configure() has run
    m_select_all,   \* JsonSplitFormatterImpl::m_select_all
    m_select_path,  \* JsonSplitFormatterImpl::m_select_path
    m_attr_names,   \* JsonSplitFormatterImpl::m_attr_names
    m_aliases,      \* JsonSplitFormatterImpl::m_aliases
    directory,      \* db.get_all_attributes()
    db_globals,     \* db.get_globals()
    m_records,      \* JsonSplitFormatterImpl::m_records
    m_records_lock, \* the thread holding m_records_lock, or NoThread
    pc,             \* where each producer thread is in process_record
    t_list,         \* the record (list) each producer thread is handing in
    acquired,       \* the records in the order their calls took the lock
    completed,      \* number of process_record calls that have returned
    nflush,         \* number of flush calls made
    doc_data,       \* "data" of the last document: rows of cells
    doc_columns,    \* "columns": the titles
    doc_meta,       \* "column_metadata": is_value per column
    doc_globals     \* the global name/value pairs written last

tvars == <<m_nodes_lock, frame>>

hvars == <<m_nodes, calls, nodes_json, tvars>>

cvars == <<spec_in, configured, m_select_all, m_select_path, m_attr_names,
           m_aliases>>

dbvars == <<directory, db_globals>>

rvars == <<m_records, m_records_lock, pc, t_list, acquired, completed>>

docvars == <<nflush, doc_data, doc_columns, doc_meta, doc_globals>>

vars == <<hvars, cvars, dbvars, rvars, docvars>>

-----------------------------------------------------------------------------
(* Bounds and input sets *)

\* Number of get_id calls made directly on one interner.
MaxCalls == 3

\* Label sequences handed to get_id.
Paths ==
    { <<>>, <<"main">>, <<"foo">>, <<"main", "foo">>, <<"main", "bar">>,
      <<"foo", "main">> }

\* Column titles handed to get_id.
ColumnTitles == {"path", "phase"}

\* Producer threads calling process_record.
Threads == {"t1", "t2"}

\* m_records_lock is free.
NoThread == "none"

\* Number of get_id calls made by the threads sharing one interner.
MaxWalks == 2

\* Label sequences the threads hand to get_id.
WalkPaths == { <<>>, <<"main">>, <<"main", "foo">> }

\* Number of process_record calls.
MaxRecords == 2

\* Number of flush calls.
MaxFlush == 2

\* Number of global entries.
MaxGlobals == 3

-----------------------------------------------------------------------------
(* class Hierarchy *)

\* The id of the synthetic root; cali_id_t's invalid id (all bits set). The
\* model only ever compares it for equality.
CALI_INV_ID == -1

\* parent->first_child() ... next_sibling(): the children of the node with
\* id `parent`, in the order they were appended.
Children(nodes, parent) == SelectSeq(nodes, LAMBDA n : n.parent = parent)

\* The scan of the child list never matches.
FindChild_Never(nodes, parent, label) == <<>>

\* The scan of line 105: the children of `parent` carrying `label`; the loop
\* stops at the first one, <<>> stands for the null pointer it ends with.
FindChild(nodes, parent, label) ==
    SelectSeq(Children(nodes, parent), LAMBDA n : n.label = label)

\* Every node gets id 0.
NewNode_IdZero(nodes, label, column, parent) ==
    [id |-> 0, label |-> label, column |-> column, parent |-> parent]

\* new HierarchyNode(m_nodes.size(), label, column), linked under `parent`.
NewNode(nodes, label, column, parent) ==
    [id |-> Len(nodes), label |-> label, column |-> column, parent |-> parent]

\* The loop of get_id from node `node` on: the node list after the call and
\* the id of the node the walk ends in.
RECURSIVE GetIdFrom(_, _, _, _)
GetIdFrom(nodes, node, vec, column) ==
    IF vec = <<>>
    THEN [nodes |-> nodes, id |-> node]
    ELSE LET label == Head(vec)
             found == FindChild(nodes, node, label)
         IN  IF found # <<>>
             THEN GetIdFrom(nodes, found[1].id, Tail(vec), column)
             ELSE LET new == NewNode(nodes, label, column, node)
                  IN  GetIdFrom(Append(nodes, new), new.id, Tail(vec), column)

\* The walk starts at a root constructed with id 0.
get_id_RootZero(nodes, vec, column) == GetIdFrom(nodes, 0, vec, column)

\* Hierarchy::get_id(vec, column), the walk starting at m_root.
get_id(nodes, vec, column) == GetIdFrom(nodes, CALI_INV_ID, vec, column)

\* The parent is written for every node, the root's id for a top-level one.
write_json_AlwaysParent(node) ==
    [label |-> node.label, column |-> node.column, parent |-> node.parent]

\* HierarchyNode::write_json: the parent is written unless it is the root.
write_json(node) ==
    IF node.parent # CALI_INV_ID
    THEN [label |-> node.label, column |-> node.column, parent |-> node.parent]
    ELSE [label |-> node.label, column |-> node.column]

\* The newest node is written first.
write_nodes_NewestFirst(nodes) ==
    [k \in 1..Len(nodes) |-> write_json(nodes[Len(nodes) + 1 - k])]

\* Hierarchy::write_nodes: one entry per node of m_nodes, in list order.
write_nodes(nodes) == [k \in 1..Len(nodes) |-> write_json(nodes[k])]


-----------------------------------------------------------------------------
(* QuerySpec and JsonSplitFormatterImpl::configure *)

\* QuerySpec::AttributeSelection
SelectionModes == {"Default", "None", "All", "List"}

\* Names a selection list may hold.
SelectLists == { <<>>, <<"time.duration">>, <<"time.duration", "hid">> }

GroupbyLists == { <<>>, <<"phase">>, <<"phase", "tag">> }

\* Aggregation operations: a kernel applied to an attribute.
SumTime == [kernel |-> "sum", arg |-> "time.duration"]
MaxTime == [kernel |-> "max", arg |-> "time.duration"]

AggregateLists == { <<>>, <<SumTime>>, <<SumTime, MaxTime>> }

\* Alias maps: attribute name -> column title.
NoAliases == <<>>
TimeAlias == [n \in {"time.duration"} |-> "Time"]
NestedAlias ==
    [n \in {"function", "phase"} |-> IF n = "function" THEN "Fn" ELSE "Phase"]

\* A selection list of QuerySpec: the list is filled only in mode List, and
\* mode List may come with an empty list (GROUP BY path).
SelectionsOver(lists) ==
    { [selection |-> m, list |-> l, use_path |-> p] :
        m \in SelectionModes, l \in lists, p \in BOOLEAN }

WellFormed(sel) == sel.list # <<>> => sel.selection = "List"

QuerySpecs ==
    { [select |-> s, groupby |-> g, aggregate |-> a, aliases |-> al] :
        s \in { x \in SelectionsOver(SelectLists) : WellFormed(x) },
        g \in { x \in SelectionsOver(GroupbyLists) : WellFormed(x) },
        a \in AggregateLists,
        al \in {NoAliases, TimeAlias, NestedAlias} }

\* The default-constructed QuerySpec.
DefaultQuery ==
    [select    |-> [selection |-> "Default", list |-> <<>>, use_path |-> FALSE],
     groupby   |-> [selection |-> "Default", list |-> <<>>, use_path |-> FALSE],
     aggregate |-> <<>>,
     aliases   |-> NoAliases]

\* Aggregator::get_aggregation_attribute_name(op): "sum#time.duration".
get_aggregation_attribute_name(op) == op.kernel \o "#" \o op.arg

AggregationNames(ops) ==
    [i \in 1..Len(ops) |-> get_aggregation_attribute_name(ops[i])]

\* The GROUPBY branch is taken only when the group-by list holds a name.
GroupbyApplies_NonEmpty(q) == q.groupby.list # <<>>

\* Line 182: the aggregation key and ops are used if there is a GROUPBY.
GroupbyApplies(q) == q.groupby.selection = "List"

\* configure(spec): the members it leaves behind.
configure(q) ==
    LET cleared == [select_all  |-> FALSE,
                    select_path |-> q.select.use_path,
                    attr_names  |-> <<>>,
                    aliases     |-> q.aliases]
    IN  CASE q.select.selection \in {"Default", "All"} ->
                IF GroupbyApplies(q)
                THEN [cleared EXCEPT
                        !.attr_names = q.groupby.list \o
                                       AggregationNames(q.aggregate),
                        !.select_path = q.groupby.use_path]
                ELSE [cleared EXCEPT !.select_all = TRUE]
          [] q.select.selection = "None" -> cleared
          [] q.select.selection = "List" ->
                [cleared EXCEPT !.attr_names = q.select.list]

\* JsonSplitFormatterImpl(): m_select_all(false); m_select_path is not
\* initialized and holds either value until configure runs.
Unconfigured(q) ==
    /\ spec_in = q
    /\ configured = FALSE
    /\ m_select_all = FALSE
    /\ m_select_path \in BOOLEAN
    /\ m_attr_names = <<>>
    /\ m_aliases = NoAliases

\* The state configure(q) leaves.
Configured(q) ==
    /\ spec_in = q
    /\ configured = TRUE
    /\ m_select_all = configure(q).select_all
    /\ m_select_path = configure(q).select_path
    /\ m_attr_names = configure(q).attr_names
    /\ m_aliases = configure(q).aliases

-----------------------------------------------------------------------------
(* The metadata store (CaliperMetadataAccessInterface): attributes, the   *)
(* context tree, records and globals. Read-only for the formatter.        *)

Attr(id, name, nested, as_value, hidden, global, type) ==
    [id |-> id, name |-> name, nested |-> nested, as_value |-> as_value,
     hidden |-> hidden, global |-> global, type |-> type]

A_function == Attr(1, "function",      TRUE,  FALSE, FALSE, FALSE, "string")
A_time     == Attr(2, "time.duration", FALSE, TRUE,  FALSE, FALSE, "double")
A_loop     == Attr(3, "loop",          TRUE,  FALSE, FALSE, FALSE, "string")
A_phase    == Attr(4, "phase",         FALSE, FALSE, FALSE, FALSE, "string")
A_tag      == Attr(5, "tag",           FALSE, TRUE,  FALSE, FALSE, "string")
A_rank     == Attr(6, "rank",          FALSE, TRUE,  FALSE, TRUE,  "int")
A_hid      == Attr(7, "hid",           FALSE, TRUE,  TRUE,  FALSE, "uint")
A_cluster  == Attr(8, "cluster",       FALSE, FALSE, FALSE, TRUE,  "string")
A_build    == Attr(9, "build",         FALSE, FALSE, FALSE, TRUE,  "string")

\* db.get_all_attributes(): two directories with the same attributes in a
\* different iteration order.
DirectoryById ==
    <<A_function, A_time, A_loop, A_phase, A_tag, A_rank, A_hid, A_cluster,
      A_build>>

DirectoryMixed ==
    <<A_tag, A_loop, A_hid, A_phase, A_cluster, A_function, A_rank, A_build,
      A_time>>

Directories == {DirectoryById, DirectoryMixed}

\* db.get_attribute(id).name()
AttributeName(id) ==
    (CHOOSE a \in {DirectoryById[i] : i \in DOMAIN DirectoryById} : a.id = id).name

TreeNode(id, attribute, data, parent) ==
    [id |-> id, attribute |-> attribute, data |-> data, parent |-> parent]

\* The context tree; node k is Tree[k], a parent of CALI_INV_ID is the root.
Tree ==
    << TreeNode(1, A_function.id, "main",   CALI_INV_ID),
       TreeNode(2, A_function.id, "foo",    1),
       TreeNode(3, A_function.id, "bar",    1),
       TreeNode(4, A_loop.id,     "l1",     CALI_INV_ID),
       TreeNode(5, A_phase.id,    "init",   2),
       TreeNode(6, A_phase.id,    "main",   CALI_INV_ID),
       TreeNode(7, A_cluster.id,  "quartz", CALI_INV_ID),
       TreeNode(8, A_cluster.id,  "rack1",  7),
       TreeNode(9, A_cluster.id,  "rzansel", CALI_INV_ID),
       TreeNode(10, A_build.id,   "opt",    9) >>

\* Entry: a reference entry points to a tree node, an immediate entry holds
\* an attribute id and a value.
Ref(n) == [node |-> n]
Imm(a, v) == [node |-> CALI_INV_ID, attribute |-> a.id, value |-> v]

\* Entry::is_reference()
is_reference(e) == e.node # CALI_INV_ID

\* Entry::attribute(): the node's attribute for a reference entry.
EntryAttribute(e) ==
    IF is_reference(e) THEN Tree[e.node].attribute ELSE e.attribute

\* Entry::value().to_string()
EntryValue(e) == IF is_reference(e) THEN Tree[e.node].data ELSE e.value

\* The records (EntryList) producers hand to process_record.
RecFoo  == <<Ref(2), Imm(A_time, "10"), Imm(A_tag, "x")>>
RecLoop == <<Ref(5), Ref(4)>>
RecMain == <<Ref(6), Imm(A_time, "5"), Imm(A_time, "7")>>

Records == {RecFoo, RecLoop, RecMain}

\* Global entries db.get_globals() may return.
GlobalEntries == {Ref(8), Ref(9), Ref(10), Imm(A_rank, "0")}

Reverse(seq) == [i \in 1..Len(seq) |-> seq[Len(seq) + 1 - i]]

RECURSIVE Concat(_)
Concat(seqs) == IF seqs = <<>> THEN <<>> ELSE Head(seqs) \o Concat(Tail(seqs))

Range(seq) == {seq[i] : i \in DOMAIN seq}

-----------------------------------------------------------------------------
(* JsonSplitFormatterImpl::init_columns *)

\* Every single-attribute column is a value column.
make_column_AlwaysValue(title, a) ==
    [title |-> title, attributes |-> <<a>>, is_hierarchy |-> FALSE]

\* Column::make_column(title, a)
make_column(title, a) ==
    [title |-> title, attributes |-> <<a>>, is_hierarchy |-> ~a.as_value]

\* With select-all only hidden attributes are filtered out.
Selected_GlobalsKept(a, select_all, select_path, attr_names) ==
    IF select_all
    THEN ~a.hidden
    ELSE (select_path /\ a.nested) \/ a.name \in Range(attr_names)

\* The predicate of the two remove_if calls, negated: the attribute stays.
Selected(a, select_all, select_path, attr_names) ==
    IF select_all
    THEN ~(a.hidden \/ a.global)
    ELSE (select_path /\ a.nested) \/ a.name \in Range(attr_names)

\* The alias map is not consulted.
ColumnTitle_RawName(a, aliases) == a.name

\* Lines 241-247: the title is the alias if the map has one.
ColumnTitle(a, aliases) ==
    IF a.name \in DOMAIN aliases THEN aliases[a.name] ELSE a.name

\* The path column is put in front of the value columns.
ColumnOrder_PathFirst(valuecols, path) ==
    (IF path.attributes # <<>> THEN <<path>> ELSE <<>>) \o valuecols

\* Lines 247-252: value columns are pushed in the loop, the path column
\* after it and only if it has attributes.
ColumnOrder(valuecols, path) ==
    valuecols \o (IF path.attributes # <<>> THEN <<path>> ELSE <<>>)

init_columns(all_attrs, select_all, select_path, attr_names, aliases) ==
    LET attrs == SelectSeq(all_attrs,
                     LAMBDA a : Selected(a, select_all, select_path, attr_names))
        path  == [title |-> "path",
                  attributes |-> SelectSeq(attrs, LAMBDA a : a.nested),
                  is_hierarchy |-> TRUE]
        rest  == SelectSeq(attrs, LAMBDA a : ~a.nested)
        valuecols == [i \in 1..Len(rest) |->
                         make_column(ColumnTitle(rest[i], aliases), rest[i])]
    IN  ColumnOrder(valuecols, path)

-----------------------------------------------------------------------------
(* Cells: write_hierarchy_entry and write_immediate_entry *)

\* What is written for one cell: an interned id, the null marker, a quoted
\* string or an unquoted number.
IdCell(id)     == [kind |-> "id", val |-> id]
NullCell       == [kind |-> "null", val |-> "null"]
StringCell(v)  == [kind |-> "string", val |-> v]
NumberCell(v)  == [kind |-> "number", val |-> v]

\* The loop of line 261 from tree node n up: the nodes whose attribute is
\* one of `ids`, leaf first.
RECURSIVE Chain(_, _)
Chain(n, ids) ==
    IF n = CALI_INV_ID
    THEN <<>>
    ELSE (IF Tree[n].attribute \in ids THEN <<n>> ELSE <<>>)
             \o Chain(Tree[n].parent, ids)

\* Each entry's chain is reversed on its own, then the chains are joined.
HierarchyPath_PerEntry(list, path_attrs) ==
    LET ids == {path_attrs[i].id : i \in DOMAIN path_attrs}
    IN  Concat([i \in 1..Len(list) |-> Reverse(Chain(list[i].node, ids))])

\* Lines 258-268: the chains of all entries are collected leaf first, in
\* entry order, and the whole vector is reversed once.
HierarchyPath(list, path_attrs) ==
    LET ids == {path_attrs[i].id : i \in DOMAIN path_attrs}
    IN  Reverse(Concat([i \in 1..Len(list) |-> Chain(list[i].node, ids)]))

\* e.value().to_string() of the path's entries: the labels get_id sees.
Labels(path) == [i \in 1..Len(path) |-> Tree[path[i]].data]

\* Lines 271-274: the id get_id returned is written unless it is the
\* invalid id, for which null is written.
HierarchyCell(id) == IF id # CALI_INV_ID THEN IdCell(id) ELSE NullCell

\* write_hierarchy_entry: the node list after get_id and the cell written.
write_hierarchy_entry(nodes, list, path_attrs, column) ==
    LET r == get_id(nodes, Labels(HierarchyPath(list, path_attrs)), column)
    IN  [nodes |-> r.nodes, cell |-> HierarchyCell(r.id)]

\* An absent attribute is written as the empty string.
write_immediate_entry_AbsentEmpty(list, attr) ==
    LET quote == ~(attr.type \in {"int", "uint", "double"})
        hits  == SelectSeq(list, LAMBDA e : EntryAttribute(e) = attr.id)
    IN  IF hits = <<>>
        THEN StringCell("")
        ELSE IF quote THEN StringCell(EntryValue(hits[1]))
                      ELSE NumberCell(EntryValue(hits[1]))

\* write_immediate_entry: the first entry of the attribute, quoted unless
\* the type is int, uint or double; null if there is none.
write_immediate_entry(list, attr) ==
    LET quote == ~(attr.type \in {"int", "uint", "double"})
        hits  == SelectSeq(list, LAMBDA e : EntryAttribute(e) = attr.id)
    IN  IF hits = <<>>
        THEN NullCell
        ELSE IF quote THEN StringCell(EntryValue(hits[1]))
                      ELSE NumberCell(EntryValue(hits[1]))

\* Lines 396-399: one cell of a row.
WriteCell(nodes, rec, c) ==
    IF c.is_hierarchy
    THEN write_hierarchy_entry(nodes, rec, c.attributes, c.title)
    ELSE [nodes |-> nodes, cell |-> write_immediate_entry(rec, c.attributes[1])]

\* Lines 392-400: the cells of one row, column by column.
RECURSIVE WriteRow(_, _, _)
WriteRow(nodes, rec, columns) ==
    IF columns = <<>>
    THEN [nodes |-> nodes, cells |-> <<>>]
    ELSE LET first == WriteCell(nodes, rec, Head(columns))
             rest  == WriteRow(first.nodes, rec, Tail(columns))
         IN  [nodes |-> rest.nodes, cells |-> <<first.cell>> \o rest.cells]

\* The buffer is replayed back to front.
ReplayOrder_Reversed(records) == Reverse(records)

\* Line 387: for (auto rec : m_records), front to back.
ReplayOrder(records) == records

\* Lines 387-403: the rows of all records in replay order.
RECURSIVE WriteRows(_, _, _)
WriteRows(nodes, records, columns) ==
    IF records = <<>>
    THEN [nodes |-> nodes, rows |-> <<>>]
    ELSE LET first == WriteRow(nodes, Head(records), columns)
             rest  == WriteRows(first.nodes, Tail(records), columns)
         IN  [nodes |-> rest.nodes, rows |-> <<first.cells>> \o rest.rows]

-----------------------------------------------------------------------------
(* JsonSplitFormatterImpl::write_globals *)

\* global_vals[id] of a std::map<cali_id_t, std::string>: "" if absent.
MapGet(vals, id) == IF id \in DOMAIN vals THEN vals[id] ELSE ""

MapPut(vals, id, s) ==
    [k \in DOMAIN vals \cup {id} |-> IF k = id THEN s ELSE vals[k]]

\* Lines 307-314: the walk from node n up, each value put in front of what
\* global_vals holds for the node's attribute.
RECURSIVE GlobalsWalk(_, _)
GlobalsWalk(vals, n) ==
    IF n = CALI_INV_ID
    THEN vals
    ELSE LET a   == Tree[n].attribute
             old == MapGet(vals, a)
             s   == IF old # "" THEN Tree[n].data \o "/" \o old
                                ELSE Tree[n].data
         IN  GlobalsWalk(MapPut(vals, a, s), Tree[n].parent)

\* Lines 305-316: the map after all global entries.
RECURSIVE GlobalVals(_, _)
GlobalVals(vals, globals) ==
    IF globals = <<>>
    THEN vals
    ELSE LET e == Head(globals)
         IN  GlobalVals(IF is_reference(e)
                        THEN GlobalsWalk(vals, e.node)
                        ELSE MapPut(vals, e.attribute, e.value),
                        Tail(globals))

\* The keys of a map in ascending order, as std::map iterates.
RECURSIVE SortedKeys(_)
SortedKeys(keys) ==
    IF keys = {}
    THEN <<>>
    ELSE LET m == CHOOSE k \in keys : \A o \in keys : k <= o
         IN  <<m>> \o SortedKeys(keys \ {m})

\* write_globals: the name/value pairs appended to the document.
write_globals(globals) ==
    LET vals == GlobalVals(<<>>, globals)
        keys == SortedKeys(DOMAIN vals)
    IN  [i \in 1..Len(keys) |->
            [name |-> AttributeName(keys[i]), value |-> vals[keys[i]]]]

-----------------------------------------------------------------------------
(* The interner driven directly: any sequence of get_id and write_nodes *)

\* Hierarchy(): the root alone, no node in m_nodes.
\* The parent of a node that no child list holds yet (a null pointer).
Unlinked == -2

\* No node constructed.
NoNode == [id |-> Unlinked, label |-> "", column |-> "", parent |-> Unlinked]

\* A thread outside get_id and write_nodes.
IdleFrame ==
    [pc |-> "idle", vec |-> <<>>, column |-> "", i |-> 0,
     parent |-> CALI_INV_ID, node |-> NoNode]

NewHierarchy ==
    /\ m_nodes = <<>>
    /\ calls = <<>>
    /\ nodes_json = <<>>
    /\ m_nodes_lock = NoThread
    /\ frame = [t \in Threads |-> IdleFrame]

\* No record buffered, no producer inside process_record.
NoRecords ==
    /\ m_records = <<>>
    /\ m_records_lock = NoThread
    /\ pc = [t \in Threads |-> "idle"]
    /\ t_list = [t \in Threads |-> <<>>]
    /\ acquired = <<>>
    /\ completed = 0

\* Nothing flushed yet.
NoDocument ==
    /\ nflush = 0
    /\ doc_data = <<>>
    /\ doc_columns = <<>>
    /\ doc_meta = <<>>
    /\ doc_globals = <<>>

InitHierarchy ==
    /\ NewHierarchy
    /\ Configured(DefaultQuery)
    /\ directory = DirectoryById
    /\ db_globals = <<>>
    /\ NoRecords
    /\ NoDocument

Resolve(vec, column) ==
    /\ Len(calls) < MaxCalls
    /\ LET r == get_id(m_nodes, vec, column)
       IN  /\ m_nodes' = r.nodes
           /\ calls' = Append(calls, [vec |-> vec, column |-> column,
                                      id |-> r.id,
                                      cell |-> HierarchyCell(r.id)])
    /\ UNCHANGED <<nodes_json, tvars, cvars, dbvars, rvars, docvars>>

WriteNodes ==
    /\ nodes_json' = write_nodes(m_nodes)
    /\ UNCHANGED <<m_nodes, calls, tvars, cvars, dbvars, rvars, docvars>>

NextHierarchy ==
    \/ \E vec \in Paths, column \in ColumnTitles : Resolve(vec, column)
    \/ WriteNodes

SpecHierarchy == InitHierarchy /\ [][NextHierarchy]_vars

-----------------------------------------------------------------------------
(* Claims about the interner *)

SameCall(a, b) == a.vec = b.vec /\ a.column = b.column

\* C1: any two get_id calls on one interner with equal paths (same label
\* sequence, same column) return the same id, whatever was resolved between.
IdempotentInterning ==
    \A i, j \in 1..Len(calls) :
        SameCall(calls[i], calls[j]) => calls[i].id = calls[j].id

\* C1 witness: a non-empty path resolved twice with another path in between.
IdempotentInterningWitness ==
    /\ Len(calls) >= 3
    /\ calls[1].vec # <<>>
    /\ SameCall(calls[1], calls[3])
    /\ ~SameCall(calls[1], calls[2])
    /\ calls[2].vec # <<>>

\* C2: two resolved paths that differ in their label sequence or in their
\* column get distinct ids (stated for non-empty paths, the ones that are
\* interned as nodes).
Uniqueness ==
    \A i, j \in 1..Len(calls) :
        /\ calls[i].vec # <<>>
        /\ calls[j].vec # <<>>
        /\ ~SameCall(calls[i], calls[j])
        => calls[i].id # calls[j].id

\* C3: every interned node whose parent is not the synthetic root has a
\* parent id smaller than its own id, and every dictionary entry carrying a
\* parent field has a parent smaller than the entry's own id (its position).
ParentOrdering ==
    /\ \A k \in 1..Len(m_nodes) :
          m_nodes[k].parent # CALI_INV_ID => m_nodes[k].parent < m_nodes[k].id
    /\ \A k \in 1..Len(nodes_json) :
          "parent" \in DOMAIN nodes_json[k] => nodes_json[k].parent < k - 1

\* C3 witness: a child node exists and was written with its parent field.
ParentOrderingWitness ==
    /\ \E k \in 1..Len(nodes_json) :
          /\ "parent" \in DOMAIN nodes_json[k]
          /\ m_nodes[k].parent # CALI_INV_ID
          /\ nodes_json[k].parent = m_nodes[k].parent

\* The first two calls resolved main/foo and then main/bar.
ScenarioA ==
    /\ Len(calls) >= 2
    /\ calls[1].vec = <<"main", "foo">>
    /\ calls[2].vec = <<"main", "bar">>

\* C12: node ids are dense from 0 in list (creation) order, the k-th entry
\* of a written dictionary is the node with id k, the parent field is
\* omitted exactly for the nodes directly under the root, and on a fresh
\* interner main/foo then main/bar give the ids 1 and 2 and the dictionary
\* main, foo (parent 0), bar (parent 0).
DictionaryNumbering ==
    /\ \A k \in 1..Len(m_nodes) : m_nodes[k].id = k - 1
    /\ Len(nodes_json) <= Len(m_nodes)
    /\ \A k \in 1..Len(nodes_json) :
          /\ nodes_json[k].label = m_nodes[k].label
          /\ nodes_json[k].column = m_nodes[k].column
          /\ "parent" \in DOMAIN nodes_json[k]
                <=> m_nodes[k].parent # CALI_INV_ID
          /\ "parent" \in DOMAIN nodes_json[k]
                => nodes_json[k].parent = m_nodes[k].parent
    /\ ScenarioA =>
          /\ calls[1].id = 1
          /\ calls[2].id = 2
          /\ Len(nodes_json) >= 3 =>
                /\ nodes_json[1].label = "main"
                /\ DOMAIN nodes_json[1] = {"label", "column"}
                /\ nodes_json[2].label = "foo" /\ nodes_json[2].parent = 0
                /\ nodes_json[3].label = "bar" /\ nodes_json[3].parent = 0

\* C12 witness: the dictionary written after main/foo and main/bar.
DictionaryNumberingWitness ==
    /\ ScenarioA
    /\ Len(calls) = 2
    /\ Len(nodes_json) = 3


\* The step is a get_id call on the empty path.
EmptyPathCall ==
    /\ Len(calls') = Len(calls) + 1
    /\ calls'[Len(calls')].vec = <<>>

\* C13: get_id on the empty path returns the invalid id, which is neither 0
\* nor the id of any node, the cell written for it is null, and the call
\* creates no node, whatever the interner holds.
EmptyPath ==
    /\ [](\A i \in 1..Len(calls) :
             calls[i].vec = <<>> =>
                 /\ calls[i].id = CALI_INV_ID
                 /\ calls[i].id # 0
                 /\ \A k \in 1..Len(m_nodes) : m_nodes[k].id # calls[i].id
                 /\ calls[i].cell = NullCell)
    /\ [][EmptyPathCall => m_nodes' = m_nodes]_vars

\* C13 witness: the empty path resolved on an interner that holds nodes, and
\* a path resolved after it.
EmptyPathWitness ==
    /\ Len(calls) = 3
    /\ calls[1].vec # <<>>
    /\ calls[2].vec = <<>>
    /\ calls[3].vec # <<>>
    /\ Len(m_nodes) >= 2


-----------------------------------------------------------------------------
(* configure applied to every QuerySpec *)

InitConfigure ==
    /\ NewHierarchy
    /\ \E q \in QuerySpecs : Unconfigured(q)
    /\ directory = DirectoryById
    /\ db_globals = <<>>
    /\ NoRecords
    /\ NoDocument

\* JsonSplitFormatter(spec): mP->configure(spec).
Configure ==
    /\ ~configured
    /\ configured' = TRUE
    /\ m_select_all' = configure(spec_in).select_all
    /\ m_select_path' = configure(spec_in).select_path
    /\ m_attr_names' = configure(spec_in).attr_names
    /\ m_aliases' = configure(spec_in).aliases
    /\ UNCHANGED <<spec_in, hvars, dbvars, rvars, docvars>>

NextConfigure == Configure

SpecConfigure == InitConfigure /\ [][NextConfigure]_vars

DefaultOrAll == spec_in.select.selection \in {"Default", "All"}

GroupbyNames ==
    spec_in.groupby.list \o
        [i \in 1..Len(spec_in.aggregate) |->
            spec_in.aggregate[i].kernel \o "#" \o spec_in.aggregate[i].arg]

ResolvedFromGroupby ==
    /\ m_select_all = FALSE
    /\ m_attr_names = GroupbyNames
    /\ m_select_path = spec_in.groupby.use_path

ResolvedSelectAll ==
    /\ m_select_all = TRUE
    /\ m_attr_names = <<>>
    /\ m_select_path = spec_in.select.use_path

\* C7 as stated: for mode default or all, a non-empty group-by list gives
\* select-all false, the group-by names followed by the aggregate names and
\* the group-by path flag; no non-empty group-by list gives select-all true,
\* no names and the select path flag.
SelectionResolutionNonEmptyList ==
    configured /\ DefaultOrAll =>
        IF spec_in.groupby.list # <<>>
        THEN ResolvedFromGroupby
        ELSE ResolvedSelectAll

\* C7 amended: the branch is decided by the group-by descriptor's mode being
\* List, whether or not the list names an attribute.
SelectionResolution ==
    configured /\ DefaultOrAll =>
        IF spec_in.groupby.selection = "List"
        THEN ResolvedFromGroupby
        ELSE ResolvedSelectAll

\* C7 witness: configured from a default-mode query with group-by names, two
\* aggregate operations and differing path flags.
SelectionResolutionWitness ==
    /\ configured
    /\ spec_in.select.selection = "Default"
    /\ spec_in.groupby.selection = "List"
    /\ spec_in.groupby.list = <<"phase", "tag">>
    /\ Len(spec_in.aggregate) = 2
    /\ spec_in.groupby.use_path # spec_in.select.use_path
    /\ m_attr_names =
          <<"phase", "tag", "sum#time.duration", "max#time.duration">>

-----------------------------------------------------------------------------
(* write_globals applied to every list of global entries *)

RECURSIVE SeqsUpTo(_, _)
SeqsUpTo(S, n) ==
    IF n = 0
    THEN {<<>>}
    ELSE LET shorter == SeqsUpTo(S, n - 1)
         IN  shorter \cup {Append(q, x) : q \in shorter, x \in S}

InitGlobals ==
    /\ NewHierarchy
    /\ Configured(DefaultQuery)
    /\ directory = DirectoryById
    /\ db_globals \in SeqsUpTo(GlobalEntries, MaxGlobals)
    /\ NoRecords
    /\ NoDocument

WriteGlobals ==
    /\ nflush = 0
    /\ nflush' = 1
    /\ doc_globals' = write_globals(db_globals)
    /\ UNCHANGED <<hvars, cvars, dbvars, rvars, doc_data, doc_columns, doc_meta>>

NextGlobals == WriteGlobals

SpecGlobals == InitGlobals /\ [][NextGlobals]_vars

\* The values of attribute a on the chain of reference entry e, root first.
RECURSIVE ChainValues(_, _)
ChainValues(n, a) ==
    IF n = CALI_INV_ID
    THEN <<>>
    ELSE ChainValues(Tree[n].parent, a)
             \o (IF Tree[n].attribute = a THEN <<Tree[n].data>> ELSE <<>>)

RECURSIVE JoinSlash(_)
JoinSlash(values) ==
    IF Len(values) = 1
    THEN values[1]
    ELSE values[1] \o "/" \o JoinSlash(Tail(values))

\* C9: when global reference entries contribute values for the same
\* attribute, the merged chain has each entry's values root first and the
\* values of an earlier entry before those of a later one.
GlobalsMergeDeclarationOrder ==
    nflush > 0 /\ (\A i \in DOMAIN db_globals : is_reference(db_globals[i])) =>
        \A k \in DOMAIN doc_globals :
            LET a == (CHOOSE x \in Range(DirectoryById) :
                         x.name = doc_globals[k].name).id
            IN  doc_globals[k].value =
                    JoinSlash(Concat([i \in DOMAIN db_globals |->
                                         ChainValues(db_globals[i].node, a)]))

-----------------------------------------------------------------------------
(* The formatter: producers call process_record concurrently, flush writes *)
(* the document                                                            *)

\* The queries the formatter is constructed with.
QueryAll ==
    [DefaultQuery EXCEPT !.aliases = TimeAlias]

QueryList ==
    [DefaultQuery EXCEPT
        !.select = [selection |-> "List",
                    list |-> <<"time.duration", "hid">>,
                    use_path |-> TRUE]]

QueryGroupby ==
    [DefaultQuery EXCEPT
        !.groupby = [selection |-> "List", list |-> <<"phase">>,
                     use_path |-> FALSE],
        !.aggregate = <<SumTime>>]

MainQueries == {QueryAll, QueryList, QueryGroupby}

MainGlobals == <<Ref(8), Imm(A_rank, "0")>>

Init ==
    /\ NewHierarchy
    /\ \E q \in MainQueries : Configured(q)
    /\ directory \in Directories
    /\ db_globals = MainGlobals
    /\ NoRecords
    /\ NoDocument

\* Calls begun so far.
Started == completed + Cardinality({t \in Threads : pc[t] # "idle"})

\* A producer enters process_record(db, rec).
Call(t, rec) ==
    /\ pc[t] = "idle"
    /\ Started < MaxRecords
    /\ pc' = [pc EXCEPT ![t] = "lock"]
    /\ t_list' = [t_list EXCEPT ![t] = rec]
    /\ UNCHANGED <<m_records, m_records_lock, acquired, completed,
                   hvars, cvars, dbvars, docvars>>

\* std::lock_guard<std::mutex> g(m_records_lock)
Lock(t) ==
    /\ pc[t] = "lock"
    /\ m_records_lock = NoThread
    /\ m_records_lock' = t
    /\ acquired' = Append(acquired, t_list[t])
    /\ pc' = [pc EXCEPT ![t] = "push"]
    /\ UNCHANGED <<m_records, t_list, completed, hvars, cvars, dbvars, docvars>>

\* The buffer is replaced by the new record.
PushBack_Overwrite(records, rec) == <<rec>>

\* m_records.push_back(list)
PushBack(records, rec) == Append(records, rec)

Push(t) ==
    /\ pc[t] = "push"
    /\ m_records' = PushBack(m_records, t_list[t])
    /\ pc' = [pc EXCEPT ![t] = "unlock"]
    /\ UNCHANGED <<m_records_lock, t_list, acquired, completed,
                   hvars, cvars, dbvars, docvars>>

\* The lock_guard goes out of scope, process_record returns.
Unlock(t) ==
    /\ pc[t] = "unlock"
    /\ m_records_lock' = NoThread
    /\ pc' = [pc EXCEPT ![t] = "idle"]
    /\ completed' = completed + 1
    /\ UNCHANGED <<m_records, t_list, acquired, hvars, cvars, dbvars, docvars>>

\* write_column_metadata: "is_value" (the attribute's own metadata pairs
\* are not modelled).
write_column_metadata(c) == [is_value |-> ~c.is_hierarchy]

\* flush(db, os): the rows of the buffered records, then the metadata.
\* Line 387 reads m_records without taking m_records_lock; the read is one
\* step here, so a flush sees the buffer before or after a concurrent push.
Flush ==
    /\ nflush < MaxFlush
    /\ LET columns == init_columns(directory, m_select_all, m_select_path,
                                   m_attr_names, m_aliases)
           r == WriteRows(m_nodes, ReplayOrder(m_records), columns)
       IN  /\ m_nodes' = r.nodes
           /\ doc_data' = r.rows
           /\ doc_columns' = [i \in 1..Len(columns) |-> columns[i].title]
           /\ doc_meta' = [i \in 1..Len(columns) |->
                              write_column_metadata(columns[i])]
           /\ nodes_json' = write_nodes(r.nodes)
    /\ doc_globals' = write_globals(db_globals)
    /\ nflush' = nflush + 1
    /\ UNCHANGED <<calls, tvars, cvars, dbvars, rvars>>

Next ==
    \/ \E t \in Threads, rec \in Records : Call(t, rec)
    \/ \E t \in Threads : Lock(t)
    \/ \E t \in Threads : Push(t)
    \/ \E t \in Threads : Unlock(t)
    \/ Flush

Spec == Init /\ [][Next]_vars

-----------------------------------------------------------------------------
(* Claims about the record buffer and flush *)

\* The column model of this formatter (fixed once configured).
Columns ==
    init_columns(directory, m_select_all, m_select_path, m_attr_names,
                 m_aliases)

Flushed == nflush > 0

\* The labels from the top-level node down to the interned node `id`.
RECURSIVE LabelPath(_, _)
LabelPath(nodes, id) ==
    IF id = CALI_INV_ID
    THEN <<>>
    ELSE LabelPath(nodes, nodes[id + 1].parent) \o <<nodes[id + 1].label>>

\* The path column: the column gathering the nested attributes.
IsPathColumn(c) ==
    /\ c.is_hierarchy
    /\ \A k \in DOMAIN c.attributes : c.attributes[k].nested

\* `cell` is the id of the interned node spelling `labels`, or null if there
\* are none.
InternedAs(cell, labels) ==
    IF labels = <<>>
    THEN cell = NullCell
    ELSE cell.kind = "id" /\ LabelPath(m_nodes, cell.val) = labels

\* The entries of rec for attribute a, in record order.
EntriesFor(rec, a) == SelectSeq(rec, LAMBDA e : EntryAttribute(e) = a.id)

\* `cell` is the text of the record's first entry for a, or null.
TextOfFirstEntry(cell, rec, a) ==
    IF EntriesFor(rec, a) = <<>>
    THEN cell = NullCell
    ELSE /\ cell.kind \in {"string", "number"}
         /\ cell.val = EntryValue(EntriesFor(rec, a)[1])

\* `cell` is what column c shows for record rec.
CellBuiltFrom(cell, rec, c) ==
    IF c.is_hierarchy
    THEN InternedAs(cell, Labels(HierarchyPath(rec, c.attributes)))
    ELSE TextOfFirstEntry(cell, rec, c.attributes[1])

RowBuiltFrom(row, rec, columns) ==
    /\ Len(row) = Len(columns)
    /\ \A j \in 1..Len(columns) : CellBuiltFrom(row[j], rec, columns[j])

\* Calls that have pushed their record.
Pushed == completed + Cardinality({t \in Threads : pc[t] = "unlock"})

\* C4: whatever the interleaving of the producers, the buffer holds exactly
\* one record per process_record call that has pushed (N records once N
\* calls have completed and none is in progress), and a flush writes exactly
\* one row per buffered record.
RowCountConservation ==
    /\ [](Len(m_records) = Pushed)
    /\ [][nflush' # nflush =>
            /\ Len(doc_data') = Len(m_records)
            /\ ((\A t \in Threads : pc[t] = "idle") =>
                    Len(doc_data') = completed)]_vars

\* C4 witness: two calls completed, nobody is inside process_record, and the
\* document written last has two rows.
RowCountConservationWitness ==
    /\ Flushed
    /\ \A t \in Threads : pc[t] = "idle"
    /\ completed = 2
    /\ Len(m_records) = 2
    /\ Len(doc_data) = 2

\* C5: the buffer holds the records in the order their calls took the buffer
\* lock, and row i of the document is built from record i of the buffer.
RowOrder ==
    /\ m_records = IF \E t \in Threads : pc[t] = "push"
                   THEN SubSeq(acquired, 1, Len(acquired) - 1)
                   ELSE acquired
    /\ Flushed =>
          /\ Len(doc_data) <= Len(m_records)
          /\ \A i \in 1..Len(doc_data) :
                RowBuiltFrom(doc_data[i], m_records[i], Columns)

\* C5 witness: two different records were flushed into two different rows.
RowOrderWitness ==
    /\ Flushed
    /\ Len(doc_data) = 2
    /\ acquired[1] # acquired[2]
    /\ doc_data[1] # doc_data[2]
    /\ Len(Columns) >= 3

\* C6: the path interned for the path column is the concatenation, in
\* record entry order, of each entry's filtered ancestor chain put root
\* first.
PathConstruction ==
    Flushed =>
        \A i \in 1..Len(doc_data) : \A j \in 1..Len(Columns) :
            IsPathColumn(Columns[j]) =>
                InternedAs(doc_data[i][j],
                    Labels(HierarchyPath_PerEntry(m_records[i],
                                                  Columns[j].attributes)))

\* Column j of the model holds attribute a alone.
HoldsAlone(c, a) == c.attributes = <<a>>

KeptAttributes ==
    SelectSeq(directory,
        LAMBDA a : Selected(a, m_select_all, m_select_path, m_attr_names))

\* The kept nested attributes all sit in one path column, every other kept
\* attribute has a column of its own, and there is no other column.
Partitioned ==
    /\ \A a \in Range(KeptAttributes) :
          IF a.nested
          THEN \E j \in DOMAIN Columns :
                  /\ IsPathColumn(Columns[j])
                  /\ a \in Range(Columns[j].attributes)
          ELSE Cardinality({j \in DOMAIN Columns : HoldsAlone(Columns[j], a)}) = 1
    /\ Cardinality({j \in DOMAIN Columns : IsPathColumn(Columns[j])}) <= 1
    /\ \A j \in DOMAIN Columns :
          Range(Columns[j].attributes) \subseteq Range(KeptAttributes)

\* C8 as stated: besides the partition, every cell outside the path column
\* is the text of the record's first entry for the column's attribute or
\* null, never an interned id.
PartitioningOnlyPathInterned ==
    /\ Partitioned
    /\ Flushed =>
          \A i \in 1..Len(doc_data) : \A j \in 1..Len(Columns) :
              IF IsPathColumn(Columns[j])
              THEN doc_data[i][j].kind \in {"id", "null"}
              ELSE TextOfFirstEntry(doc_data[i][j], m_records[i],
                                    Columns[j].attributes[1])

\* C8 amended: a column of a stored-as-value attribute shows the text of the
\* record's first entry for it (or null), never an interned id; the path
\* column and every column of an attribute that is not stored as value show
\* interned ids (or null).
Partitioning ==
    /\ Partitioned
    /\ Flushed =>
          \A i \in 1..Len(doc_data) : \A j \in 1..Len(Columns) :
              IF ~IsPathColumn(Columns[j]) /\ Columns[j].attributes[1].as_value
              THEN TextOfFirstEntry(doc_data[i][j], m_records[i],
                                    Columns[j].attributes[1])
              ELSE InternedAs(doc_data[i][j],
                       Labels(HierarchyPath(m_records[i],
                                            Columns[j].attributes)))

\* C8 witness: one flushed row has a text cell in a value column, an id in
\* the column of a reference attribute and an id in the path column.
PartitioningWitness ==
    /\ Flushed
    /\ \E i \in 1..Len(doc_data) : \E j, k \in 1..Len(Columns) :
          /\ ~IsPathColumn(Columns[j])
          /\ doc_data[i][j].kind = "id"
          /\ IsPathColumn(Columns[k])
          /\ doc_data[i][k].kind = "id"
    /\ \E i \in 1..Len(doc_data) : \E j \in 1..Len(Columns) :
          doc_data[i][j].kind \in {"string", "number"}

\* The kept attributes that are not nested, in directory order.
KeptValues == SelectSeq(KeptAttributes, LAMBDA a : ~a.nested)

HasPath == \E a \in Range(KeptAttributes) : a.nested

\* C10: the columns are the kept non-nested attributes in directory order,
\* then the path column iff a nested attribute was kept; the titles and the
\* cells of every row of the document follow that order.
ColumnOrdering ==
    /\ Len(Columns) = Len(KeptValues) + (IF HasPath THEN 1 ELSE 0)
    /\ \A j \in 1..Len(KeptValues) : HoldsAlone(Columns[j], KeptValues[j])
    /\ HasPath => IsPathColumn(Columns[Len(Columns)])
    /\ Flushed =>
          /\ Len(doc_columns) = Len(Columns)
          /\ \A j \in 1..Len(KeptValues) :
                doc_columns[j] = ColumnTitle(KeptValues[j], m_aliases)
          /\ HasPath => doc_columns[Len(doc_columns)] = "path"
          /\ \A i \in 1..Len(doc_data) :
                /\ Len(doc_data[i]) = Len(Columns)
                /\ \A j \in 1..Len(KeptValues) :
                      CellBuiltFrom(doc_data[i][j], m_records[i],
                                    make_column("", KeptValues[j]))
                /\ HasPath =>
                      doc_data[i][Len(Columns)].kind \in {"id", "null"}

\* C10 witness: a document with three value columns and the path column,
\* from the directory that lists a nested attribute between them, with a row
\* that has text, null and id cells.
ColumnOrderingWitness ==
    /\ Flushed
    /\ directory = DirectoryMixed
    /\ Len(KeptValues) = 3
    /\ HasPath
    /\ doc_columns = <<"tag", "phase", "Time", "path">>
    /\ \E i \in 1..Len(doc_data) :
          /\ doc_data[i][1].kind = "string"
          /\ doc_data[i][2].kind = "null"
          /\ doc_data[i][3].kind = "number"
          /\ doc_data[i][4].kind = "id"

\* Record rec has no entry for the attribute of value column c.
Absent(rec, c) == ~c.is_hierarchy /\ EntriesFor(rec, c.attributes[1]) = <<>>

\* C14: every row a flush writes has one cell per column; the cell of a
\* value column whose attribute the record lacks is null, the value cells of
\* the attributes the record has are not, and the rows of the records after
\* it are written all the same.
AbsentAttribute ==
    [][nflush' # nflush =>
          /\ Len(doc_columns') = Len(Columns)
          /\ Len(doc_data') = Len(m_records)
          /\ \A i \in 1..Len(doc_data') :
                /\ Len(doc_data'[i]) = Len(doc_columns')
                /\ \A j \in 1..Len(Columns) :
                      /\ Absent(m_records[i], Columns[j])
                            => doc_data'[i][j] = NullCell
                      /\ ~Columns[j].is_hierarchy
                            /\ ~Absent(m_records[i], Columns[j])
                            => doc_data'[i][j].kind \in {"string", "number"}]_vars

\* C14 witness: a written row with a null value cell followed by a cell that
\* is not null, and a later row that has the value.
AbsentAttributeWitness ==
    /\ Flushed
    /\ Len(doc_data) = Len(m_records)
    /\ \E i \in 1..Len(doc_data) - 1 :
          \E j, k \in 1..Len(Columns) :
              /\ j < k
              /\ Absent(m_records[i], Columns[j])
              /\ doc_data[i][j] = NullCell
              /\ doc_data[i][k] # NullCell
              /\ doc_data[i + 1][j].kind \in {"string", "number"}


-----------------------------------------------------------------------------
(* The column model of every QuerySpec: flush on an empty buffer *)

InitColumns ==
    /\ NewHierarchy
    /\ \E q \in QuerySpecs : Configured(q)
    /\ directory \in Directories
    /\ db_globals = <<>>
    /\ NoRecords
    /\ NoDocument

NextColumns == Flush

SpecColumns == InitColumns /\ [][NextColumns]_vars

\* The attributes that produce or join a column, column by column.
ColumnAttributes == Concat([j \in 1..Len(Columns) |-> Columns[j].attributes])

\* C11: with select-all set exactly the attributes that are neither hidden
\* nor global are kept; with select-all clear an attribute is kept iff
\* (use-path is set and it is nested) or its name is in the explicit list;
\* each kept attribute is in one column and no other attribute is in any.
AttributeFiltering ==
    /\ Range(ColumnAttributes) =
          { a \in Range(directory) :
              IF m_select_all
              THEN ~a.hidden /\ ~a.global
              ELSE \/ m_select_path /\ a.nested
                   \/ \E k \in DOMAIN m_attr_names : m_attr_names[k] = a.name }
    /\ Cardinality(Range(ColumnAttributes)) = Len(ColumnAttributes)
    /\ Flushed => Len(doc_columns) = Len(Columns)

\* C11 witnesses: a document written with select-all set, the directory
\* holding hidden and global attributes ...
AttributeFilteringWitness ==
    /\ Flushed
    /\ m_select_all
    /\ \E a \in Range(directory) : a.hidden
    /\ \E a \in Range(directory) : a.global
    /\ Len(doc_columns) = 4

\* C15: every single-attribute column is titled by the alias the query maps
\* its attribute's name to, and by the raw name if the query maps none; the
\* path column is titled "path".
AliasTitles ==
    Flushed =>
        \A j \in 1..Len(Columns) :
            IF IsPathColumn(Columns[j])
            THEN doc_columns[j] = "path"
            ELSE LET name == Columns[j].attributes[1].name
                 IN  doc_columns[j] = IF name \in DOMAIN spec_in.aliases
                                      THEN spec_in.aliases[name]
                                      ELSE name

\* C15 witness: a document with an aliased column, a column without alias
\* and the path column, from a query that also maps a nested attribute.
AliasTitlesWitness ==
    /\ Flushed
    /\ spec_in.aliases = NestedAlias
    /\ \E j, k, l \in 1..Len(doc_columns) :
          /\ doc_columns[j] = "Phase"
          /\ doc_columns[k] = "time.duration"
          /\ doc_columns[l] = "path"

-----------------------------------------------------------------------------
(* Flush after flush on a buffer no producer touches *)

\* The formatter after one producer has handed in the records of `buffer`
\* and every process_record call has returned.
Buffered(buffer) ==
    /\ m_records = buffer
    /\ m_records_lock = NoThread
    /\ pc = [t \in Threads |-> "idle"]
    /\ t_list = [t \in Threads |->
                    IF t = "t1" /\ buffer # <<>>
                    THEN buffer[Len(buffer)] ELSE <<>>]
    /\ acquired = buffer
    /\ completed = Len(buffer)

InitReflush ==
    /\ NewHierarchy
    /\ \E q \in MainQueries : Configured(q)
    /\ directory \in Directories
    /\ db_globals = MainGlobals
    /\ \E buffer \in SeqsUpTo(Records, MaxRecords) : Buffered(buffer)
    /\ NoDocument

NextReflush == Flush

SpecReflush == InitReflush /\ [][NextReflush]_vars

\* C19: a flush leaves the record buffer as it was, and a flush that follows
\* another with no process_record in between replays the same records: it
\* creates no node, writes the same dictionary and the same rows, cell for
\* cell.
RepeatedFlush ==
    [][nflush' # nflush =>
          /\ m_records' = m_records
          /\ Len(doc_data') = Len(m_records)
          /\ nflush >= 1 =>
                /\ m_nodes' = m_nodes
                /\ nodes_json' = nodes_json
                /\ doc_data' = doc_data
                /\ doc_columns' = doc_columns]_vars

\* C19 witness: two flushes of a buffer of two records whose rows carry
\* interned ids.
RepeatedFlushWitness ==
    /\ nflush = 2
    /\ Len(m_records) = 2
    /\ Len(doc_data) = 2
    /\ Len(m_nodes) >= 2
    /\ \E i \in 1..Len(doc_data), j \in 1..Len(doc_columns) :
          doc_data[i][j].kind = "id"

-----------------------------------------------------------------------------
(* Threads sharing one formatter: get_id and write_nodes step by step, *)
(* next to process_record                                               *)

InitThreads ==
    /\ NewHierarchy
    /\ Configured(DefaultQuery)
    /\ directory = DirectoryById
    /\ db_globals = <<>>
    /\ NoRecords
    /\ NoDocument

\* get_id calls begun so far.
WalksBegun ==
    Len(calls) + Cardinality({t \in Threads :
                                 frame[t].pc \notin {"idle", "write"}})

\* A thread enters get_id(vec, column): node = &m_root (line 99).
BeginGetId(t, vec, column) ==
    /\ frame[t].pc = "idle"
    /\ WalksBegun < MaxWalks
    /\ frame' = [frame EXCEPT ![t] =
                    [pc |-> "loop", vec |-> vec, column |-> column, i |-> 1,
                     parent |-> CALI_INV_ID, node |-> NoNode]]
    /\ UNCHANGED <<m_nodes, calls, nodes_json, m_nodes_lock,
                   cvars, dbvars, rvars, docvars>>

\* Lines 101-108: the next entry's label is looked up among the children of
\* the current node, m_nodes_lock not held.  A child found becomes the
\* current node; otherwise the thread goes on to take the lock.
Scan(t) ==
    /\ frame[t].pc = "loop"
    /\ frame[t].i <= Len(frame[t].vec)
    /\ LET found == FindChild(m_nodes, frame[t].parent,
                              frame[t].vec[frame[t].i])
           f == frame[t]
       IN  frame' = [frame EXCEPT ![t] =
                        IF found # <<>>
                        THEN [f EXCEPT !.parent = found[1].id, !.i = f.i + 1]
                        ELSE [f EXCEPT !.pc = "lock"]]
    /\ UNCHANGED <<m_nodes, calls, nodes_json, m_nodes_lock,
                   cvars, dbvars, rvars, docvars>>

\* The mutex is taken whoever holds it.
NodesLockFree_Always(holder) == TRUE

\* m_nodes_lock can be taken.
NodesLockFree(holder) == holder = NoThread

\* Lines 109-110: std::lock_guard<std::mutex> g(m_nodes_lock)
LockNodes(t) ==
    /\ frame[t].pc = "lock"
    /\ NodesLockFree(m_nodes_lock)
    /\ m_nodes_lock' = t
    /\ frame' = [frame EXCEPT ![t].pc = "new"]
    /\ UNCHANGED <<m_nodes, calls, nodes_json, cvars, dbvars, rvars, docvars>>

\* Line 112: node = new HierarchyNode(m_nodes.size(), label, column)
Construct(t) ==
    /\ frame[t].pc = "new"
    /\ LET f == frame[t]
       IN  frame' = [frame EXCEPT ![t] =
                        [f EXCEPT !.pc = "push_back",
                                  !.node = NewNode(m_nodes, f.vec[f.i],
                                                   f.column, Unlinked)]]
    /\ UNCHANGED <<m_nodes, calls, nodes_json, m_nodes_lock,
                   cvars, dbvars, rvars, docvars>>

\* Line 113: m_nodes.push_back(node)
PushBackNode(t) ==
    /\ frame[t].pc = "push_back"
    /\ m_nodes' = Append(m_nodes, frame[t].node)
    /\ frame' = [frame EXCEPT ![t].pc = "append"]
    /\ UNCHANGED <<calls, nodes_json, m_nodes_lock,
                   cvars, dbvars, rvars, docvars>>

\* Line 115: parent->append(node) links the node under the current node.
AppendChild(t) ==
    /\ frame[t].pc = "append"
    /\ m_nodes' = [m_nodes EXCEPT ![frame[t].node.id + 1].parent =
                                      frame[t].parent]
    /\ frame' = [frame EXCEPT ![t].pc = "unlock"]
    /\ UNCHANGED <<calls, nodes_json, m_nodes_lock,
                   cvars, dbvars, rvars, docvars>>

\* The mutex stays with the thread that took it.
Released_Never(t) == t

\* The holder of m_nodes_lock once thread t's lock_guard is destroyed.
Released(t) == NoThread

\* Lines 116-117: the lock_guard goes out of scope, the new node is the
\* current node of the next iteration.
UnlockNodes(t) ==
    /\ frame[t].pc = "unlock"
    /\ m_nodes_lock' = Released(t)
    /\ LET f == frame[t]
       IN  frame' = [frame EXCEPT ![t] =
                        [f EXCEPT !.pc = "loop", !.parent = f.node.id,
                                  !.i = f.i + 1, !.node = NoNode]]
    /\ UNCHANGED <<m_nodes, calls, nodes_json, cvars, dbvars, rvars, docvars>>

\* Line 119: return node->id()
Return(t) ==
    /\ frame[t].pc = "loop"
    /\ frame[t].i > Len(frame[t].vec)
    /\ calls' = Append(calls, [vec |-> frame[t].vec,
                              column |-> frame[t].column,
                              id |-> frame[t].parent,
                              cell |-> HierarchyCell(frame[t].parent)])
    /\ frame' = [frame EXCEPT ![t] = IdleFrame]
    /\ UNCHANGED <<m_nodes, nodes_json, m_nodes_lock,
                   cvars, dbvars, rvars, docvars>>

\* write_nodes, lines 124-125: std::lock_guard<std::mutex> g(m_nodes_lock)
BeginWriteNodes(t) ==
    /\ frame[t].pc = "idle"
    /\ NodesLockFree(m_nodes_lock)
    /\ m_nodes_lock' = t
    /\ frame' = [frame EXCEPT ![t].pc = "write"]
    /\ UNCHANGED <<m_nodes, calls, nodes_json, cvars, dbvars, rvars, docvars>>

\* write_nodes, lines 127-134: the nodes are written and the lock released.
EndWriteNodes(t) ==
    /\ frame[t].pc = "write"
    /\ nodes_json' = write_nodes(m_nodes)
    /\ m_nodes_lock' = Released(t)
    /\ frame' = [frame EXCEPT ![t] = IdleFrame]
    /\ UNCHANGED <<m_nodes, calls, cvars, dbvars, rvars, docvars>>

\* A step of thread t inside get_id or write_nodes.
WalkStep(t) ==
    \/ Scan(t) \/ LockNodes(t) \/ Construct(t) \/ PushBackNode(t)
    \/ AppendChild(t) \/ UnlockNodes(t) \/ Return(t)
    \/ EndWriteNodes(t)

\* Threads calling get_id and write_nodes on one interner.
NextInterner ==
    \/ \E t \in Threads, vec \in WalkPaths, column \in ColumnTitles :
          BeginGetId(t, vec, column)
    \/ \E t \in Threads : BeginWriteNodes(t)
    \/ \E t \in Threads : WalkStep(t)

SpecInterner == InitThreads /\ [][NextInterner]_vars

\* A step inside an operation already begun.
Progress ==
    \E t \in Threads : Lock(t) \/ Push(t) \/ Unlock(t) \/ WalkStep(t)

\* The record and the column the threads of SpecThreads use: the locks taken
\* do not depend on either.
AnyRecord == RecMain
AnyColumn == "path"

\* Threads calling process_record, get_id and write_nodes on one formatter,
\* each thread in one operation at a time.  flush takes part through the
\* get_id calls of its rows and its write_nodes call (lines 269, 375): it
\* takes no lock of its own (line 387).
NextThreads ==
    \/ \E t \in Threads : frame[t].pc = "idle" /\ Call(t, AnyRecord)
    \/ \E t \in Threads, vec \in WalkPaths :
          pc[t] = "idle" /\ BeginGetId(t, vec, AnyColumn)
    \/ \E t \in Threads : pc[t] = "idle" /\ BeginWriteNodes(t)
    \/ Progress

SpecThreads == InitThreads /\ [][NextThreads]_vars

-----------------------------------------------------------------------------
(* Claims about threads sharing the interner *)

\* Thread t is between taking m_nodes_lock in get_id and releasing it.
Creating(t) == frame[t].pc \in {"new", "push_back", "append", "unlock"}

\* C16: however the get_id calls of the threads interleave, nodes are created
\* one at a time: the ids in m_nodes are pairwise distinct (the k-th node has
\* id k - 1), a node constructed is the next element of the list and then in
\* the list once, and every node of the list is linked under the parent it
\* records, except the one node whose creator still holds the lock between
\* push_back and append.
SerializedCreation ==
    /\ \A j, k \in 1..Len(m_nodes) : j # k => m_nodes[j].id # m_nodes[k].id
    /\ \A k \in 1..Len(m_nodes) : m_nodes[k].id = k - 1
    /\ Cardinality({t \in Threads : Creating(t)}) <= 1
    /\ \A t \in Threads :
          /\ Creating(t) => m_nodes_lock = t
          /\ frame[t].pc = "push_back" => frame[t].node.id = Len(m_nodes)
          /\ frame[t].pc \in {"append", "unlock"} =>
                /\ frame[t].node.id = Len(m_nodes) - 1
                /\ m_nodes[Len(m_nodes)].label = frame[t].node.label
    /\ \A k \in 1..Len(m_nodes) :
          IF \E t \in Threads :
                 frame[t].pc = "append" /\ frame[t].node.id = k - 1
          THEN m_nodes[k].parent = Unlinked
          ELSE /\ m_nodes[k].parent # Unlinked
               /\ \/ m_nodes[k].parent = CALI_INV_ID
                  \/ m_nodes[k].parent \in 0..(k - 2)
               /\ \E c \in 1..Len(Children(m_nodes, m_nodes[k].parent)) :
                      Children(m_nodes, m_nodes[k].parent)[c].id = k - 1

\* C16 witness: one thread has pushed its second node and not yet linked it
\* while the other waits for the lock to create one.
SerializedCreationWitness ==
    \E t, u \in Threads :
        /\ frame[t].pc = "append"
        /\ frame[u].pc = "lock"
        /\ Len(m_nodes) = 2
        /\ m_nodes[2].parent = Unlinked

\* C17: get_id calls of several threads with equal paths return the same id,
\* and no node (the root included) has two children with the same label.
ConcurrentDedup ==
    /\ \A i, j \in 1..Len(calls) :
          SameCall(calls[i], calls[j]) => calls[i].id = calls[j].id
    /\ \A j, k \in 1..Len(m_nodes) :
          /\ j # k
          /\ m_nodes[j].parent # Unlinked
          /\ m_nodes[j].parent = m_nodes[k].parent
          => m_nodes[j].label # m_nodes[k].label

\* s is a prefix of t.
IsPrefix(s, t) == Len(s) <= Len(t) /\ \A k \in 1..Len(s) : s[k] = t[k]

\* C18: no step removes a node from m_nodes or changes the id, label or
\* column of a node, nor its parent once it is linked, and every dictionary
\* written is a prefix of the dictionaries written after it.
AppendOnly ==
    [][/\ Len(m_nodes') >= Len(m_nodes)
       /\ \A k \in 1..Len(m_nodes) :
             /\ m_nodes'[k].id = m_nodes[k].id
             /\ m_nodes'[k].label = m_nodes[k].label
             /\ m_nodes'[k].column = m_nodes[k].column
             /\ m_nodes[k].parent # Unlinked
                   => m_nodes'[k].parent = m_nodes[k].parent
       /\ IsPrefix(nodes_json, nodes_json')]_vars

\* C18 witness: a dictionary of two nodes was written, a third node was
\* created after it and a thread is about to write the dictionary again.
AppendOnlyWitness ==
    /\ Len(nodes_json) = 2
    /\ Len(m_nodes) = 3
    /\ "parent" \in DOMAIN nodes_json[2]
    /\ \E t \in Threads : frame[t].pc = "write"

\* C20: process_record holds only m_records_lock, get_id and write_nodes
\* only m_nodes_lock; no thread holds both; a process_record call waiting at
\* a free m_records_lock can take it whoever holds m_nodes_lock; and while
\* any operation is under way some thread can take its next step.
LockIndependence ==
    /\ \A t \in Threads :
          /\ ~(m_records_lock = t /\ m_nodes_lock = t)
          /\ m_records_lock = t =>
                pc[t] \in {"push", "unlock"} /\ frame[t].pc = "idle"
          /\ m_nodes_lock = t =>
                (Creating(t) \/ frame[t].pc = "write") /\ pc[t] = "idle"
          /\ pc[t] \in {"push", "unlock"} => m_records_lock = t
          /\ (pc[t] = "lock" /\ m_records_lock = NoThread) => ENABLED Lock(t)
    /\ (\E t \in Threads : pc[t] # "idle" \/ frame[t].pc # "idle")
          => ENABLED Progress

\* C20 witness: one thread holds m_records_lock inside process_record while
\* another holds m_nodes_lock inside get_id.
LockIndependenceWitness ==
    \E t, u \in Threads :
        /\ m_records_lock = t /\ pc[t] = "push"
        /\ m_nodes_lock = u /\ frame[u].pc = "append"

====
